---- MODULE Spec2Model ----
(***************************************************************************)
(* Model of the Kinesis batch handlers of Nordstrom/kinesis-handler:        *)
(*   KinesisHandler            - the concurrent driver                      *)
(*   KinesisSynchronousHandler - the ordered (generator driven) driver      *)
(* One instance is constructed, payload schemas are registered, and one     *)
(* batch is handed to processKinesisEvent.  JavaScript runs every turn to   *)
(* completion, so the variable turn names the synchronous turn in progress *)
(* ("none" between turns); timers and asynchronous handler completions      *)
(* start a new turn only when no turn is in progress.                       *)
(***************************************************************************)
EXTENDS Integers, Sequences, FiniteSets, TLC

\* ------------------------------------------------------------------ bounds
MaxRecords == 2
MaxRegistrationRecords == 1

\* --------------------------------------------------------------- constants
MODULE_NAME == "lib/kinesisHandler.js"
METHOD_PROCESS_EVENT == "processEvent"
METHOD_PROCESS_KINESIS_EVENT == "processKinesisEvent"
BAD_MSG == "bad msg:"

\* the moduleName the instance was constructed with
module == "unnamed module"

\* ------------------------------------------------------------------ schemas
\* A schema document is known by its self-describing header only.
EventSchema == [self |-> [vendor |-> "com.nordstrom", name |-> "retail-stream-ingress", version |-> "1-0-0"]]
ProductSchema == [self |-> [vendor |-> "com.nordstrom", name |-> "product/create", version |-> "1-0-0"]]
ImageSchema == [self |-> [vendor |-> "com.nordstrom", name |-> "product/image", version |-> "1-0-0"]]

PayloadSchemas == {ProductSchema, ImageSchema}

makeSchemaId(schema) == <<schema.self.vendor, "/", schema.self.name, "/", schema.self.version>>

\* an identity no schema of the stream has (a foreign producer's envelope)
ForeignSchemaId == <<"org.example", "/", "other-stream", "/", "1-0-0">>

\* ------------------------------------------------------------------ methods
\* A value offered as a handler is known by its name, its typeof and its
\* length (for a function, its declared parameter count).
Methods ==
  {[name |-> "onProduct", typeof |-> "function", length |-> 2],
   [name |-> "onImage", typeof |-> "function", length |-> 2]}

\* values that are not functions of the form (event, callback) => {}
NotMethods ==
  {[name |-> "oneParameter", typeof |-> "function", length |-> 1],
   [name |-> "aString", typeof |-> "string", length |-> 2]}

\* ------------------------------------------------------------------- errors
\* Error values are sequences of tokens; NoErr is `undefined'.
NoErr == <<>>

BadMsg(text) == <<METHOD_PROCESS_EVENT, BAD_MSG, text>>

\* what a handler hands to complete when it fails
HandlerErrors == {<<"handler", "failed">>}

GeneratorRunning == <<"TypeError", "Generator is already running">>
ImplNotDefined == <<"ReferenceError", "impl is not defined">>
DataUndefined == <<"TypeError", "Cannot read property 'schema' of undefined">>
TransformRaised == <<"Error", "transformer raised">>

\* `${constants.MODULE} for ${this.module} ${err}`
Message(err) == <<MODULE_NAME, "for", module>> \o err

\* new Error(msg)
NewError(msg) == <<"Error">> \o msg

\* String.prototype.indexOf on token sequences: the first position at which
\* needle occurs in hay, or -1
indexOf(hay, needle) ==
  LET hits == {p \in 1..(Len(hay) - Len(needle) + 1) :
                 \A k \in 1..Len(needle) : hay[p + k - 1] = needle[k]}
  IN IF hits = {} THEN -1 ELSE CHOOSE p \in hits : \A q \in hits : p <= q

\* ------------------------------------------------------------------- events
\* What a record's payload decodes (and transforms) to.  envValid and
\* data.valid are the answers of the validation engine for this instance.
NoData == [schema |-> <<>>, valid |-> FALSE, present |-> FALSE]

Data(schemaId, valid) == [schema |-> schemaId, valid |-> valid, present |-> TRUE]

Event(schemaId, envValid, data) == [schema |-> schemaId, envValid |-> envValid, data |-> data]

Events ==
  {Event(<<>>, TRUE, Data(makeSchemaId(ProductSchema), TRUE)),
   Event(ForeignSchemaId, TRUE, Data(makeSchemaId(ProductSchema), TRUE)),
   Event(makeSchemaId(EventSchema), FALSE, Data(makeSchemaId(ProductSchema), TRUE)),
   Event(makeSchemaId(EventSchema), TRUE, NoData)}
  \cup {Event(makeSchemaId(EventSchema), TRUE, Data(makeSchemaId(s), v)) :
          s \in PayloadSchemas, v \in BOOLEAN}

NoEvent == Event(<<>>, FALSE, NoData)

\* ------------------------------------------------------------------ records
\* data: "missing"     - record.kinesis or record.kinesis.data is absent
\*       "undecodable" - JSON.parse of the decoded payload throws
\*       "falsy"       - the payload parses to null, 0, false or ""
\*       "json"        - the payload parses to a truthy value
\* raises: the transformer throws on this record; event: what is dispatched
Record(data, raises, event) == [data |-> data, raises |-> raises, event |-> event]

RawRecords ==
  {Record("missing", FALSE, NoEvent),
   Record("undecodable", FALSE, NoEvent),
   Record("falsy", FALSE, NoEvent),
   Record("json", TRUE, NoEvent)}
  \cup {Record("json", FALSE, e) : e \in Events}

RECURSIVE SeqsOf(_, _)
SeqsOf(S, n) ==
  IF n = 0 THEN {<<>>}
  ELSE LET shorter == SeqsOf(S, n - 1)
       IN shorter \cup {Append(s, x) : s \in {t \in shorter : Len(t) = n - 1}, x \in S}

\* the shapes processKinesisEvent can be handed
KinesisEvents ==
  {[shape |-> sh, Records |-> <<>>] : sh \in {"null", "noRecords", "notArray"}}
  \cup {[shape |-> "array", Records |-> rs] : rs \in SeqsOf(RawRecords, MaxRecords)}

VARIABLES
  driver,             \* which constructor built the instance
  transfomer,         \* this.transfomer is set
  synch,              \* this.synch of the single-constructor module
  schemaMethodPairs,  \* this.schemaMethodPairs
  ajv,                \* schema ids added to this.ajv
  thrown,             \* the registrations that threw: [schemaId, method]
  kinesisEvent,       \* the batch handed to processKinesisEvent
  called,             \* processKinesisEvent has been called
  turn,               \* the synchronous turn in progress
  i,                  \* the loop variable of the driver (1-based)
  successes,          \* the shared counter of the concurrent driver
  it,                 \* this.it: state of the generator object
  badMessages,        \* the generator's badMessages
  timers,             \* setTimeout callbacks not yet run: <<record, err>>
  handlerCalls,       \* handler invocations so far: [rec, method, event]
  completions,        \* per record, the values its completion was signalled with
  callbackCalls,      \* the arguments the batch callback was invoked with
  uncaught,           \* exceptions no frame caught
  previous            \* the completion an earlier batch on this instance still owes

vars == <<driver, transfomer, synch, schemaMethodPairs, ajv, thrown, kinesisEvent,
          called, turn, i, successes, it, badMessages, timers, handlerCalls,
          completions, callbackCalls, uncaught, previous>>

registryVars == <<schemaMethodPairs, ajv, thrown>>
configVars == <<driver, transfomer, synch>>
generatorVars == <<it, badMessages, timers>>

\* what an earlier batch still owes: kind "unused" while processKinesisEvent
\* has been called at most once, then "handler" (a handler has not called
\* back), "timer" (a setTimeout callback holding err has not run) or "none"
Previous(kind, err) == [kind |-> kind, err |-> err]

Records == kinesisEvent.Records
N == Len(Records)

Invoked(r) == \E c \in 1..Len(handlerCalls) : handlerCalls[c].rec = r

\* records whose handler was invoked and has not called its callback yet
Outstanding == {r \in 1..N : Invoked(r) /\ completions[r] = <<>>}

\* ------------------------------------------------------------ construction
Init ==
  /\ driver \in {"KinesisHandler", "KinesisSynchronousHandler"}
  /\ transfomer \in BOOLEAN
  /\ synch = FALSE
  /\ schemaMethodPairs = <<>>
  /\ ajv = {makeSchemaId(EventSchema)}
  /\ thrown = {}
  /\ kinesisEvent = [shape |-> "null", Records |-> <<>>]
  /\ called = FALSE
  /\ turn = "none"
  /\ i = 1
  /\ successes = 0
  /\ it = "null"
  /\ badMessages = <<>>
  /\ timers = <<>>
  /\ handlerCalls = <<>>
  /\ completions = <<>>
  /\ callbackCalls = <<>>
  /\ uncaught = <<>>
  /\ previous = Previous("unused", NoErr)

\* ------------------------------------------------------------ registration
Put(map, key, value) ==
  [k \in (DOMAIN map) \cup {key} |-> IF k = key THEN value ELSE map[k]]

IsRegistered(schemaId) == schemaId \in DOMAIN schemaMethodPairs

\* mutant: the method is stored without looking at it
BadMethod_Never(method) == FALSE

\* typeof method !== 'function' || method.length !== 2
BadMethod(method) == method.typeof # "function" \/ method.length # 2

registerSchemaMethodPair(schema, method) ==
  /\ ~called
  /\ ajv' = ajv \cup {makeSchemaId(schema)}
  /\ schemaMethodPairs' =
       IF BadMethod(method) THEN schemaMethodPairs
       ELSE Put(schemaMethodPairs, makeSchemaId(schema), method)
  /\ thrown' =
       IF BadMethod(method)
       THEN thrown \cup {[schemaId |-> makeSchemaId(schema), method |-> method]}
       ELSE thrown
  /\ UNCHANGED <<configVars, previous, kinesisEvent, called, turn, i, successes, generatorVars,
                 handlerCalls, completions, callbackCalls, uncaught>>

Register == \E schema \in PayloadSchemas, method \in Methods : registerSchemaMethodPair(schema, method)

\* registration with any value offered as the method
RegisterAny ==
  \E schema \in PayloadSchemas, method \in Methods \cup NotMethods :
    registerSchemaMethodPair(schema, method)

\* ------------------------------------------------- KinesisHandler: dispatch
\* !event || !event.schema
NoSchema(event) == event.schema = <<>>

\* mutant: the comparison with this.eventSchemaId is left out
ProperSchema_Unchecked(event) == TRUE

\* event.schema !== this.eventSchemaId, negated
ProperSchema(event) == event.schema = makeSchemaId(EventSchema)

\* mutant: the unsupported-schema message is passed to complete
Unsupported_Reported == BadMsg("event with unsupported data schema observed.")

\* what an event with an unsupported data schema is completed with: complete()
Unsupported == NoErr

\* The decision of processEvent(event, complete): complete with an error or
\* with none, invoke a handler, or raise.
KinesisHandler_processEvent(event) ==
  IF NoSchema(event)
  THEN [do |-> "complete", err |-> BadMsg("event did not specify a schema.")]
  ELSE IF ~ProperSchema(event)
  THEN [do |-> "complete", err |-> BadMsg("event did not have proper schema.")]
  ELSE IF ~event.envValid
  THEN [do |-> "complete", err |-> BadMsg("could not validate event to envelope schema.")]
  ELSE IF ~event.data.present
  THEN [do |-> "raise", err |-> DataUndefined]
  ELSE IF IsRegistered(event.data.schema)
  THEN IF ~event.data.valid
       THEN [do |-> "complete", err |-> BadMsg("could not validate event to data schema.")]
       ELSE [do |-> "invoke", err |-> NoErr]
  ELSE [do |-> "complete", err |-> Unsupported]

\* ------------------------------------------------ KinesisHandler: complete
\* msg.indexOf(`${MODULE} for ${module} processEvent bad msg:`) !== -1
\* mutant: no error value is recognised as a bad message
IsBadMessage_Never(err) == FALSE

IsBadMessage(err) == indexOf(Message(err), Message(<<METHOD_PROCESS_EVENT, BAD_MSG>>)) # -1

\* mutant: complete(err) never throws
CompleteThrows_Never(err) == FALSE

\* complete(err) takes the branch that throws
CompleteThrows(err) == err # NoErr /\ ~IsBadMessage(err)

\* mutant: the counter is incremented before the error is classified
Counted_BeforeClassifying(err) == successes + 1

\* the counter after complete(err) has run to its test of the counter, or
\* to its throw
Counted(err) == IF CompleteThrows(err) THEN successes ELSE successes + 1

\* mutant: the counter is compared with the last index of Records
AllProcessed_LastIndex(count) == count = N - 1

\* successes === kinesisEvent.Records.length
AllProcessed(count) == count = N

\* the loop moves to the next record; processKinesisEvent returns after the last
NextRecord ==
  /\ i' = i + 1
  /\ turn' = IF i + 1 > N THEN "none" ELSE turn

\* complete(err) called for record r, inside the loop of processKinesisEvent
\* (an exception reaches its catch) or in a later turn (nothing catches it)
complete(r, err, inLoop) ==
  /\ completions' = [completions EXCEPT ![r] = Append(@, err)]
  /\ IF CompleteThrows(err)
     THEN /\ successes' = Counted(err)
          /\ IF inLoop
             THEN /\ callbackCalls' = Append(callbackCalls, NewError(Message(err)))
                  /\ turn' = "none"
                  /\ UNCHANGED <<i, uncaught>>
             ELSE /\ uncaught' = Append(uncaught, NewError(Message(err)))
                  /\ UNCHANGED <<i, turn, callbackCalls>>
     ELSE /\ successes' = Counted(err)
          /\ callbackCalls' = IF AllProcessed(Counted(err))
                                THEN Append(callbackCalls, NoErr)
                                ELSE callbackCalls
          /\ uncaught' = uncaught
          /\ IF inLoop THEN NextRecord ELSE UNCHANGED <<i, turn>>

\* ------------------------------------- KinesisHandler: processKinesisEvent
\* mutant: Array.isArray is not asked
IsRecordCollection_NoArrayCheck(batch) == batch.shape \in {"array", "notArray"}

IsRecordCollection(batch) == batch.shape = "array"

\* a transformer that is not set raises on no record
Admissible(batch) == transfomer \/ \A r \in 1..Len(batch.Records) : ~batch.Records[r].raises

KinesisHandler_processKinesisEvent(batch) ==
  /\ driver = "KinesisHandler"
  /\ ~called
  /\ Admissible(batch)
  /\ called' = TRUE
  /\ kinesisEvent' = batch
  /\ completions' = [r \in 1..Len(batch.Records) |-> <<>>]
  /\ successes' = 0
  /\ i' = 1
  /\ IF IsRecordCollection(batch)
     THEN /\ turn' = IF Len(batch.Records) = 0 THEN "none" ELSE "processKinesisEvent"
          /\ callbackCalls' = callbackCalls
     ELSE /\ turn' = "none"
          /\ callbackCalls' = Append(callbackCalls, <<MODULE_NAME, "for", module, METHOD_PROCESS_KINESIS_EVENT, "no records received.">>)
  /\ UNCHANGED <<configVars, previous, registryVars, generatorVars, handlerCalls, uncaught>>

\* an exception inside the loop reaches the catch of processKinesisEvent
KinesisHandler_catch(ex) ==
  /\ callbackCalls' = Append(callbackCalls, ex)
  /\ turn' = "none"
  /\ UNCHANGED <<i, successes, completions, uncaught>>

\* one iteration of the for loop
KinesisHandler_loop ==
  /\ driver = "KinesisHandler"
  /\ turn = "processKinesisEvent"
  /\ i <= N
  /\ LET record == Records[i]
         decision == KinesisHandler_processEvent(record.event)
     IN CASE record.data = "missing" ->
               /\ complete(i, BadMsg("record missing Kinesis data."), TRUE)
               /\ UNCHANGED handlerCalls
          [] record.data = "undecodable" ->
               /\ complete(i, BadMsg("failed to decode and parse the data"), TRUE)
               /\ UNCHANGED handlerCalls
          [] record.data = "falsy" ->
               /\ NextRecord
               /\ UNCHANGED <<successes, completions, callbackCalls, uncaught, handlerCalls>>
          [] record.data = "json" /\ transfomer /\ record.raises ->
               /\ KinesisHandler_catch(TransformRaised)
               /\ UNCHANGED handlerCalls
          [] record.data = "json" /\ ~(transfomer /\ record.raises) ->
               CASE decision.do = "complete" ->
                      /\ complete(i, decision.err, TRUE)
                      /\ UNCHANGED handlerCalls
                 [] decision.do = "raise" ->
                      /\ KinesisHandler_catch(decision.err)
                      /\ UNCHANGED handlerCalls
                 [] decision.do = "invoke" ->
                      /\ handlerCalls' = Append(handlerCalls,
                           [rec |-> i, method |-> schemaMethodPairs[record.event.data.schema],
                            event |-> record.event])
                      /\ \/ \E err \in {NoErr} \cup HandlerErrors : complete(i, err, TRUE)
                         \/ /\ NextRecord
                            /\ UNCHANGED <<successes, completions, callbackCalls, uncaught>>
  /\ UNCHANGED <<configVars, previous, registryVars, kinesisEvent, called, generatorVars>>

\* a handler calls complete in a turn of its own
KinesisHandler_handlerCompletes ==
  /\ driver = "KinesisHandler"
  /\ turn = "none"
  /\ \E r \in Outstanding, err \in {NoErr} \cup HandlerErrors : complete(r, err, FALSE)
  /\ UNCHANGED <<configVars, previous, registryVars, kinesisEvent, called, generatorVars, handlerCalls>>

\* ---------------------------------- KinesisSynchronousHandler: dispatch
\* mutant: the callback hands every value on to it.next
HandlerFailed_Never(err) == FALSE

\* if (err) in the callback processEvent hands to a handler
HandlerFailed(err) == err # NoErr

\* The decision of processEvent(event): defer it.next(err) with setTimeout,
\* invoke a handler, or raise.
KinesisSynchronousHandler_processEvent(event) ==
  IF NoSchema(event)
  THEN [do |-> "setTimeout", err |-> BadMsg("event did not specify a schema.")]
  ELSE IF ~ProperSchema(event)
  THEN [do |-> "setTimeout", err |-> BadMsg("event did not have proper schema.")]
  ELSE IF ~event.envValid
  THEN [do |-> "setTimeout", err |-> BadMsg("could not validate event to envelope schema.")]
  ELSE IF ~event.data.present
  THEN [do |-> "raise", err |-> DataUndefined]
  ELSE IF IsRegistered(event.data.schema)
  THEN IF ~event.data.valid
       THEN [do |-> "setTimeout", err |-> BadMsg("could not validate event to data schema.")]
       ELSE [do |-> "invoke", err |-> NoErr]
  ELSE [do |-> "setTimeout", err |-> Unsupported]

\* --------------------------- KinesisSynchronousHandler: processKinesisEvent
KinesisSynchronousHandler_processKinesisEvent(batch) ==
  /\ driver = "KinesisSynchronousHandler"
  /\ ~called
  /\ Admissible(batch)
  /\ called' = TRUE
  /\ kinesisEvent' = batch
  /\ completions' = [r \in 1..Len(batch.Records) |-> <<>>]
  /\ i' = 1
  /\ badMessages' = <<>>
  /\ IF IsRecordCollection(batch)
     THEN /\ it' = "running"
          /\ turn' = "processKinesisEvent"
          /\ callbackCalls' = callbackCalls
     ELSE /\ it' = it
          /\ turn' = "none"
          /\ callbackCalls' = Append(callbackCalls, <<MODULE_NAME, "for", module, METHOD_PROCESS_KINESIS_EVENT, "no records received.">>)
  /\ UNCHANGED <<configVars, previous, registryVars, successes, timers, handlerCalls, uncaught>>

\* ------------------------------- KinesisSynchronousHandler: the generator
\* An exception leaves the generator body: the generator is finished, and the
\* exception reaches the caller of it.next(): the catch of processKinesisEvent
\* in the first turn, nobody in a timer's or a handler's turn.
GeneratorThrows(ex) ==
  /\ it' = "completed"
  /\ turn' = "none"
  /\ IF turn = "processKinesisEvent"
     THEN /\ callbackCalls' = Append(callbackCalls, ex)
          /\ uncaught' = uncaught
     ELSE /\ uncaught' = Append(uncaught, ex)
          /\ callbackCalls' = callbackCalls

\* mutant: the yield is missing, the loop goes on to the next record
Yield_Missing ==
  /\ it' = "running"
  /\ turn' = turn
  /\ i' = i + 1

\* the generator pauses at its yield; it.next() returns to its caller
Yield ==
  /\ it' = "suspended"
  /\ turn' = "none"
  /\ i' = i

\* the generator body from the loop test of record i to the next loop test,
\* to the yield, or to its end
KinesisSynchronousHandler_recordGenerator ==
  /\ driver = "KinesisSynchronousHandler"
  /\ it = "running"
  /\ IF i > N
     THEN /\ it' = "completed"
          /\ turn' = "none"
          /\ UNCHANGED <<i, badMessages, timers, handlerCalls, completions, callbackCalls, uncaught>>
     ELSE LET record == Records[i]
              decision == KinesisSynchronousHandler_processEvent(record.event)
          IN CASE record.data = "missing" ->
                    /\ badMessages' = Append(badMessages, BadMsg("record missing Kinesis data."))
                    /\ i' = i + 1
                    /\ UNCHANGED <<it, turn, timers, handlerCalls, completions, callbackCalls, uncaught>>
               [] record.data = "undecodable" ->
                    /\ badMessages' = Append(badMessages, BadMsg("failed to decode and parse the data"))
                    /\ i' = i + 1
                    /\ UNCHANGED <<it, turn, timers, handlerCalls, completions, callbackCalls, uncaught>>
               [] record.data = "falsy" ->
                    /\ i' = i + 1
                    /\ UNCHANGED <<it, turn, badMessages, timers, handlerCalls, completions, callbackCalls, uncaught>>
               [] record.data = "json" /\ transfomer /\ record.raises ->
                    /\ GeneratorThrows(TransformRaised)
                    /\ UNCHANGED <<i, badMessages, timers, handlerCalls, completions>>
               [] record.data = "json" /\ ~(transfomer /\ record.raises) ->
                    CASE decision.do = "setTimeout" ->
                           /\ timers' = Append(timers, <<i, decision.err>>)
                           /\ Yield
                           /\ UNCHANGED <<badMessages, handlerCalls, completions, callbackCalls, uncaught>>
                      [] decision.do = "raise" ->
                           /\ GeneratorThrows(decision.err)
                           /\ UNCHANGED <<i, badMessages, timers, handlerCalls, completions>>
                      [] decision.do = "invoke" ->
                           /\ handlerCalls' = Append(handlerCalls,
                                [rec |-> i, method |-> schemaMethodPairs[record.event.data.schema],
                                 event |-> record.event])
                           /\ \/ \* the handler calls back at once: a throw for an
                                 \* error, that.it.next() on the running generator,
                                 \* which throws too, for success
                                 \E err \in {NoErr} \cup HandlerErrors :
                                   /\ completions' = [completions EXCEPT ![i] = Append(@, err)]
                                   /\ GeneratorThrows(IF HandlerFailed(err)
                                                        THEN NewError(Message(err))
                                                        ELSE GeneratorRunning)
                                   /\ i' = i
                              \/ \* the handler returns and calls back later
                                 /\ Yield
                                 /\ UNCHANGED <<completions, callbackCalls, uncaught>>
                           /\ UNCHANGED <<badMessages, timers>>
  /\ UNCHANGED <<configVars, previous, registryVars, kinesisEvent, called, successes>>

\* mutant: the value handed to it.next is not pushed onto badMessages
ItNext_ValueDropped(value, caller) ==
  IF it = "suspended"
  THEN /\ it' = "running"
       /\ turn' = caller
       /\ badMessages' = badMessages
       /\ i' = i + 1
  ELSE UNCHANGED <<it, turn, badMessages, i>>

\* it.next(value) called from a turn of its own: a paused generator takes
\* value as the result of its yield and goes on; a finished one ignores it
ItNext(value, caller) ==
  IF it = "suspended"
  THEN /\ it' = "running"
       /\ turn' = caller
       /\ badMessages' = IF value # NoErr THEN Append(badMessages, value) ELSE badMessages
       /\ i' = i + 1
  ELSE UNCHANGED <<it, turn, badMessages, i>>

\* a setTimeout callback of processEvent runs
KinesisSynchronousHandler_timer ==
  /\ driver = "KinesisSynchronousHandler"
  /\ turn = "none"
  /\ timers # <<>>
  /\ previous.kind # "timer"
  /\ timers' = Tail(timers)
  /\ completions' = [completions EXCEPT ![Head(timers)[1]] = Append(@, Head(timers)[2])]
  /\ ItNext(Head(timers)[2], "timer")
  /\ UNCHANGED <<configVars, previous, registryVars, kinesisEvent, called, successes, handlerCalls,
                 callbackCalls, uncaught>>

\* a handler calls the callback processEvent gave it, in a turn of its own
KinesisSynchronousHandler_handlerCompletes ==
  /\ driver = "KinesisSynchronousHandler"
  /\ turn = "none"
  /\ \E r \in Outstanding, err \in {NoErr} \cup HandlerErrors :
       /\ completions' = [completions EXCEPT ![r] = Append(@, err)]
       /\ IF HandlerFailed(err)
          THEN /\ uncaught' = Append(uncaught, NewError(Message(err)))
               /\ UNCHANGED <<it, turn, badMessages, i>>
          ELSE /\ ItNext(err, "handler")
               /\ uncaught' = uncaught
  /\ UNCHANGED <<configVars, previous, registryVars, kinesisEvent, called, successes, timers,
                 handlerCalls, callbackCalls>>

Next ==
  \/ Register
  \/ \E batch \in KinesisEvents : KinesisHandler_processKinesisEvent(batch)
  \/ KinesisHandler_loop
  \/ KinesisHandler_handlerCompletes
  \/ \E batch \in KinesisEvents : KinesisSynchronousHandler_processKinesisEvent(batch)
  \/ KinesisSynchronousHandler_recordGenerator
  \/ KinesisSynchronousHandler_timer
  \/ KinesisSynchronousHandler_handlerCompletes

Spec == Init /\ [][Next]_vars

\* ------------------------- KinesisSynchronousHandler: a second batch
\* processKinesisEvent called again on the same instance, between two turns.
\* this.it is replaced by the generator of the new batch; the callbacks of
\* the earlier batch that have not run yet still call that.it.next. The
\* logs start again for the new batch.
KinesisSynchronousHandler_processKinesisEvent_again(batch) ==
  /\ driver = "KinesisSynchronousHandler"
  /\ called
  /\ turn = "none"
  /\ previous.kind = "unused"
  /\ Admissible(batch)
  /\ IF IsRecordCollection(batch)
     THEN /\ previous' = IF Outstanding # {} THEN Previous("handler", NoErr)
                         ELSE IF timers # <<>> THEN Previous("timer", Head(timers)[2])
                         ELSE Previous("none", NoErr)
          /\ kinesisEvent' = batch
          /\ completions' = [r \in 1..Len(batch.Records) |-> <<>>]
          /\ i' = 1
          /\ it' = "running"
          /\ turn' = "processKinesisEvent"
          /\ badMessages' = <<>>
          /\ timers' = <<>>
          /\ handlerCalls' = <<>>
          /\ callbackCalls' = <<>>
          /\ uncaught' = <<>>
     ELSE /\ previous' = Previous("none", NoErr)
          /\ callbackCalls' = Append(callbackCalls, <<MODULE_NAME, "for", module, METHOD_PROCESS_KINESIS_EVENT, "no records received.">>)
          /\ UNCHANGED <<kinesisEvent, completions, i, it, turn, badMessages, timers,
                         handlerCalls, uncaught>>
  /\ UNCHANGED <<configVars, registryVars, called, successes>>

\* the handler invoked for the earlier batch calls the callback processEvent
\* gave it: that.it is the generator of the new batch
KinesisSynchronousHandler_previousHandlerCompletes ==
  /\ driver = "KinesisSynchronousHandler"
  /\ turn = "none"
  /\ previous.kind = "handler"
  /\ previous' = Previous("none", NoErr)
  /\ \E err \in {NoErr} \cup HandlerErrors :
       IF HandlerFailed(err)
       THEN /\ uncaught' = Append(uncaught, NewError(Message(err)))
            /\ UNCHANGED <<it, turn, badMessages, i>>
       ELSE /\ ItNext(err, "handler")
            /\ uncaught' = uncaught
  /\ UNCHANGED <<configVars, registryVars, kinesisEvent, called, successes, timers,
                 handlerCalls, completions, callbackCalls>>

\* the setTimeout callback scheduled for the earlier batch runs
KinesisSynchronousHandler_previousTimer ==
  /\ driver = "KinesisSynchronousHandler"
  /\ turn = "none"
  /\ previous.kind = "timer"
  /\ previous' = Previous("none", NoErr)
  /\ ItNext(previous.err, "timer")
  /\ UNCHANGED <<configVars, registryVars, kinesisEvent, called, successes, timers,
                 handlerCalls, completions, callbackCalls, uncaught>>

OverlapInit == Init /\ driver = "KinesisSynchronousHandler"

OverlapNext ==
  \/ Register
  \/ \E batch \in KinesisEvents : KinesisSynchronousHandler_processKinesisEvent(batch)
  \/ \E batch \in KinesisEvents : KinesisSynchronousHandler_processKinesisEvent_again(batch)
  \/ KinesisSynchronousHandler_recordGenerator
  \/ KinesisSynchronousHandler_timer
  \/ KinesisSynchronousHandler_handlerCompletes
  \/ KinesisSynchronousHandler_previousHandlerCompletes
  \/ KinesisSynchronousHandler_previousTimer

OverlapSpec == OverlapInit /\ [][OverlapNext]_vars

\* ------------------------------ src/lib/kinesis-handler.js: KinesisHandler
\* The module with one constructor, KinesisHandler(schema, synch, moduleName):
\* it takes no transformer and keeps the flag synch.
LibInit ==
  /\ driver = "lib/KinesisHandler"
  /\ transfomer = FALSE
  /\ synch \in BOOLEAN
  /\ schemaMethodPairs = <<>>
  /\ ajv = {makeSchemaId(EventSchema)}
  /\ thrown = {}
  /\ kinesisEvent = [shape |-> "null", Records |-> <<>>]
  /\ called = FALSE
  /\ turn = "none"
  /\ i = 1
  /\ successes = 0
  /\ it = "null"
  /\ badMessages = <<>>
  /\ timers = <<>>
  /\ handlerCalls = <<>>
  /\ completions = <<>>
  /\ callbackCalls = <<>>
  /\ uncaught = <<>>
  /\ previous = Previous("unused", NoErr)

\* registerSchemaMethodPair stores whatever it is given
Lib_registerSchemaMethodPair(schema, method) ==
  /\ driver = "lib/KinesisHandler"
  /\ ~called
  /\ ajv' = ajv \cup {makeSchemaId(schema)}
  /\ schemaMethodPairs' = Put(schemaMethodPairs, makeSchemaId(schema), method)
  /\ UNCHANGED <<configVars, previous, thrown, kinesisEvent, called, turn, i, successes,
                 generatorVars, handlerCalls, completions, callbackCalls, uncaught>>

Lib_Register ==
  \E schema \in PayloadSchemas, method \in Methods \cup NotMethods :
    Lib_registerSchemaMethodPair(schema, method)

\* `${this.module} ${err}`
Lib_Message(err) == <<module>> \o err

\* complete(err), called inside the loop of processKinesisEvent
Lib_complete(r, err) ==
  /\ completions' = [completions EXCEPT ![r] = Append(@, err)]
  /\ IF err # NoErr
        /\ indexOf(Lib_Message(err), Lib_Message(<<METHOD_PROCESS_EVENT, BAD_MSG>>)) = -1
     THEN /\ callbackCalls' = Append(callbackCalls, NewError(Lib_Message(err)))
          /\ turn' = "none"
          /\ UNCHANGED <<i, successes, uncaught>>
     ELSE /\ successes' = successes + 1
          /\ callbackCalls' = IF successes + 1 = N
                                THEN Append(callbackCalls, NoErr)
                                ELSE callbackCalls
          /\ uncaught' = uncaught
          /\ NextRecord

\* processKinesisEvent up to the loop: with this.synch set it logs a TODO
\* and returns
Lib_processKinesisEvent(batch) ==
  /\ driver = "lib/KinesisHandler"
  /\ ~called
  /\ Admissible(batch)
  /\ called' = TRUE
  /\ kinesisEvent' = batch
  /\ completions' = [r \in 1..Len(batch.Records) |-> <<>>]
  /\ successes' = 0
  /\ i' = 1
  /\ IF synch
     THEN /\ turn' = "none"
          /\ callbackCalls' = callbackCalls
     ELSE IF IsRecordCollection(batch)
     THEN /\ turn' = IF Len(batch.Records) = 0 THEN "none" ELSE "processKinesisEvent"
          /\ callbackCalls' = callbackCalls
     ELSE /\ turn' = "none"
          /\ callbackCalls' = Append(callbackCalls, <<module, METHOD_PROCESS_KINESIS_EVENT, "no records received.">>)
  /\ UNCHANGED <<configVars, previous, registryVars, generatorVars, handlerCalls, uncaught>>

\* one iteration of the for loop: impl.processEvent(parsed, complete) names
\* a variable the module does not declare
Lib_loop ==
  /\ driver = "lib/KinesisHandler"
  /\ turn = "processKinesisEvent"
  /\ i <= N
  /\ LET record == Records[i]
     IN CASE record.data = "missing" ->
               Lib_complete(i, BadMsg("record missing Kinesis data."))
          [] record.data = "undecodable" ->
               Lib_complete(i, BadMsg("failed to decode and parse the data"))
          [] record.data = "falsy" ->
               /\ NextRecord
               /\ UNCHANGED <<successes, completions, callbackCalls, uncaught>>
          [] record.data = "json" ->
               KinesisHandler_catch(ImplNotDefined)
  /\ UNCHANGED <<configVars, previous, registryVars, kinesisEvent, called, generatorVars,
                 handlerCalls>>

LibNext ==
  \/ Lib_Register
  \/ \E batch \in KinesisEvents : Lib_processKinesisEvent(batch)
  \/ Lib_loop

LibSpec == LibInit /\ [][LibNext]_vars

\* Registration with arbitrary values, followed by one batch of at most
\* MaxRegistrationRecords records.
RegistrationEvents == {batch \in KinesisEvents : Len(batch.Records) <= MaxRegistrationRecords}

RegistrationNext ==
  \/ RegisterAny
  \/ \E batch \in RegistrationEvents : KinesisHandler_processKinesisEvent(batch)
  \/ KinesisHandler_loop
  \/ KinesisHandler_handlerCompletes
  \/ \E batch \in RegistrationEvents : KinesisSynchronousHandler_processKinesisEvent(batch)
  \/ KinesisSynchronousHandler_recordGenerator
  \/ KinesisSynchronousHandler_timer
  \/ KinesisSynchronousHandler_handlerCompletes

RegistrationSpec == Init /\ [][RegistrationNext]_vars

\* ================================================================== claims
Concurrent == driver = "KinesisHandler"
Ordered == driver = "KinesisSynchronousHandler"

WellFormed == called /\ IsRecordCollection(kinesisEvent)

\* an error value that starts with the bad-message marker
CarriesMarker(err) == Len(err) >= 2 /\ err[1] = METHOD_PROCESS_EVENT /\ err[2] = BAD_MSG

NonFatal(err) == err = NoErr \/ CarriesMarker(err)

\* the batch callback has been invoked with no error
Succeeded == \E c \in 1..Len(callbackCalls) : callbackCalls[c] = NoErr

\* nothing is running, scheduled or awaited
Quiescent == called /\ turn = "none" /\ timers = <<>> /\ Outstanding = {}

Decodes(r) == Records[r].data = "json" /\ ~(transfomer /\ Records[r].raises)

\* record r decodes, validates and routes to a registered handler
Routable(r) ==
  /\ Decodes(r)
  /\ Records[r].event.schema = makeSchemaId(EventSchema)
  /\ Records[r].event.envValid
  /\ Records[r].event.data.present
  /\ Records[r].event.data.schema \in DOMAIN schemaMethodPairs
  /\ Records[r].event.data.valid

\* record r is a bad message: no payload, undecodable, bad envelope, or a
\* payload failing its registered schema
BadMessage(r) ==
  \/ Records[r].data \in {"missing", "undecodable"}
  \/ /\ Decodes(r)
     /\ \/ Records[r].event.schema # makeSchemaId(EventSchema)
        \/ ~Records[r].event.envValid
        \/ /\ Records[r].event.data.present
           /\ Records[r].event.data.schema \in DOMAIN schemaMethodPairs
           /\ ~Records[r].event.data.valid

CallsFor(r) == {c \in 1..Len(handlerCalls) : handlerCalls[c].rec = r}

\* every handler that has called back so far reported success
HandlersReportSuccess ==
  \A r \in 1..N : Invoked(r) => \A k \in 1..Len(completions[r]) : completions[r][k] = NoErr

\* the handler of record k called back with an error
FatalAt(k) == Invoked(k) /\ completions[k] # <<>> /\ completions[k][1] # NoErr

\* record r was dispatched and its completion has not been signalled yet
Awaiting(r) ==
  /\ Invoked(r) \/ \E t \in 1..Len(timers) : timers[t][1] = r
  /\ completions[r] = <<>>

InRecordOrder == \A c, d \in 1..Len(handlerCalls) : c < d => handlerCalls[c].rec < handlerCalls[d].rec

\* C1: concurrent driver: the batch callback has been invoked with no error
\* only when every record of the batch has signalled a non-fatal completion
\* (success, unsupported schema or bad message), in whatever order the
\* completions arrived.
C1_SuccessOnlyAfterAllCompleted ==
  (Concurrent /\ Succeeded) =>
    \A r \in 1..N : completions[r] # <<>> /\ NonFatal(completions[r][1])

C1_Witness ==
  /\ Concurrent
  /\ Succeeded
  /\ N >= 2
  /\ \A r \in 1..N : Invoked(r)

\* C2: concurrent driver, as claimed: for a record collection of any length,
\* whatever its payloads decode to, with no fatal completion, no raising
\* transform and every handler having called back, the batch callback has
\* been invoked once nothing is left to run.
C2_CallbackInvokedWhenNothingIsLeft ==
  ( /\ Concurrent
    /\ WellFormed
    /\ Quiescent
    /\ \A r \in 1..N : ~(transfomer /\ Records[r].raises)
    /\ \A r \in 1..N : \A k \in 1..Len(completions[r]) : NonFatal(completions[r][k]) )
  => callbackCalls # <<>>

\* C3: ordered driver: a record whose completion is awaited is the record the
\* generator is paused at, no later record has been dispatched, at most one
\* handler is outstanding, and handlers are invoked in record order.
C3_OneRecordAtATime ==
  Ordered =>
    /\ Cardinality(Outstanding) <= 1
    /\ InRecordOrder
    /\ \A r \in 1..N :
         Awaiting(r) =>
           /\ i = r
           /\ it = "suspended"
           /\ \A c \in 1..Len(handlerCalls) : handlerCalls[c].rec <= r
           /\ \A t \in 1..Len(timers) : timers[t][1] <= r

C3_Witness ==
  /\ Ordered
  /\ Len(handlerCalls) = 2
  /\ completions[1] = <<NoErr>>
  /\ Awaiting(2)

\* C4: ordered driver, as claimed: when the generator has drained a
\* well-formed batch to its end, the batch callback has been invoked with no
\* argument.
C4_DrainedBatchReportsSuccess ==
  (Ordered /\ WellFormed /\ it = "completed" /\ i > N) => callbackCalls = <<NoErr>>

\* C5: both drivers, as claimed: for a well-formed batch whose records all
\* decode, validate and route to registered handlers that report success,
\* once nothing is left to run the matching handler has been invoked exactly
\* once for every record, whether handlers call back at once or later.
C5_EveryHandlerInvokedOnce ==
  ( /\ WellFormed
    /\ \A r \in 1..N : Routable(r)
    /\ HandlersReportSuccess
    /\ Quiescent )
  => \A r \in 1..N :
       /\ Cardinality(CallsFor(r)) = 1
       /\ \A c \in CallsFor(r) : handlerCalls[c].method = schemaMethodPairs[Records[r].event.data.schema]

\* C6: ordered driver: once the handler of record k has called back with an
\* error, the generator never moves past record k: no later record is
\* decoded and no handler of a later record is invoked.
C6_NothingAfterFatal ==
  Ordered =>
    \A k \in 1..N :
      FatalAt(k) =>
        /\ i = k
        /\ it # "running"
        /\ timers = <<>>
        /\ \A c \in 1..Len(handlerCalls) : handlerCalls[c].rec <= k

C6_Witness ==
  /\ Ordered
  /\ N >= 2
  /\ FatalAt(1)
  /\ turn = "none"

\* C7: ordered driver, as claimed: when the handler of record k has called
\* back with an error, at once or in a later turn, the batch callback has
\* been invoked with that error.
C7_FatalReachesCallback ==
  Ordered =>
    \A k \in 1..N :
      (FatalAt(k) /\ turn = "none") =>
        \E c \in 1..Len(callbackCalls) : callbackCalls[c] = NewError(Message(completions[k][1]))

\* C8: ordered driver, as claimed: for a batch whose records are bad
\* messages (the set B) or route to handlers that report success, once
\* nothing is left to run the batch is drained, badMessages holds |B|
\* entries, and the handlers of the other records were invoked in record
\* order.
C8_BadMessagesCollected ==
  ( /\ Ordered
    /\ WellFormed
    /\ \A r \in 1..N : BadMessage(r) \/ Routable(r)
    /\ HandlersReportSuccess
    /\ Quiescent )
  => /\ it = "completed" /\ i > N
     /\ Len(badMessages) = Cardinality({r \in 1..N : BadMessage(r)})
     /\ InRecordOrder
     /\ \A r \in 1..N : Routable(r) => Cardinality(CallsFor(r)) = 1

\* C9: both drivers: the batch callback is invoked at most once for a call
\* of processKinesisEvent.
C9_CallbackAtMostOnce == Len(callbackCalls) <= 1

C9_Witness ==
  /\ Concurrent
  /\ Quiescent
  /\ successes >= 1
  /\ Len(callbackCalls) = 1
  /\ callbackCalls[1] # NoErr

\* C10: both drivers: every handler invocation is for an event that names
\* the envelope identity, validates against the envelope schema, names a
\* registered payload identity and validates against it, and the handler is
\* the one registered under event.data.schema; a record whose event has a
\* missing or mismatching schema reaches no handler and is completed with an
\* error carrying the bad-message marker.
C10_DispatchOnlyValidated ==
  /\ \A c \in 1..Len(handlerCalls) :
       /\ handlerCalls[c].event = Records[handlerCalls[c].rec].event
       /\ Routable(handlerCalls[c].rec)
       /\ handlerCalls[c].method = schemaMethodPairs[handlerCalls[c].event.data.schema]
  /\ \A r \in 1..N :
       (Decodes(r) /\ Records[r].event.schema # makeSchemaId(EventSchema)) =>
         /\ ~Invoked(r)
         /\ \A k \in 1..Len(completions[r]) : CarriesMarker(completions[r][k])
         /\ \A t \in 1..Len(timers) : timers[t][1] = r => CarriesMarker(timers[t][2])
         /\ r < i => Len(completions[r]) = 1

C10_Witness ==
  /\ handlerCalls # <<>>
  /\ \E r \in 1..N :
       /\ Decodes(r)
       /\ Records[r].event.schema # makeSchemaId(EventSchema)
       /\ completions[r] # <<>>

\* record r passes the envelope tests and names a payload schema that is not
\* registered
UnsupportedSchema(r) ==
  /\ Decodes(r)
  /\ Records[r].event.schema = makeSchemaId(EventSchema)
  /\ Records[r].event.envValid
  /\ Records[r].event.data.present
  /\ Records[r].event.data.schema \notin DOMAIN schemaMethodPairs

\* the records the driver has gone past
Passed == {r \in 1..N : r < i}

\* non-fatal completions signalled so far
NonFatalCompletions ==
  {r \in 1..N : completions[r] # <<>> /\ NonFatal(completions[r][1])}

\* C11: both drivers: a record whose event passes envelope validation and
\* names an unregistered data.schema reaches no handler and is completed
\* exactly once, with no error; the concurrent driver counts it as a success
\* and the ordered driver adds no entry to badMessages for it.
C11_UnsupportedCompletesWithoutError ==
  /\ \A r \in 1..N :
       UnsupportedSchema(r) =>
         /\ ~Invoked(r)
         /\ Len(completions[r]) <= 1
         /\ \A k \in 1..Len(completions[r]) : completions[r][k] = NoErr
         /\ \A t \in 1..Len(timers) : timers[t][1] = r => timers[t][2] = NoErr
         /\ r \in Passed => completions[r] = <<NoErr>>
  /\ (Concurrent /\ WellFormed /\ HandlersReportSuccess) =>
       successes = Cardinality(NonFatalCompletions)
  /\ (Ordered /\ WellFormed) =>
       Len(badMessages) = Cardinality({r \in Passed : BadMessage(r)})

C11_Witness ==
  /\ Quiescent
  /\ N = 2
  /\ UnsupportedSchema(1) /\ completions[1] = <<NoErr>>
  /\ BadMessage(2)
  /\ Ordered => Len(badMessages) = 1
  /\ Concurrent => successes = 2

\* record r has no payload field, or a payload that fails to decode
Undecoded(r) == Records[r].data \in {"missing", "undecodable"}

\* the bad message the drivers make for an undecoded record
UndecodedMessage(r) ==
  IF Records[r].data = "missing"
  THEN BadMsg("record missing Kinesis data.")
  ELSE BadMsg("failed to decode and parse the data")

\* the entries of the bad-message list that equal err
EntriesOf(err) == {b \in 1..Len(badMessages) : badMessages[b] = err}

\* C12: both drivers: a record with no payload field, or with a payload that
\* fails to decode, invokes no handler and is counted exactly once as a bad
\* message (one completion carrying the marker in the concurrent driver, one
\* entry of badMessages in the ordered driver); the batch callback receives
\* no error because of it, and the driver goes on to the records after it.
C12_UndecodedIsNonFatal ==
  WellFormed =>
    /\ \A r \in 1..N :
         Undecoded(r) =>
           /\ ~Invoked(r)
           /\ Concurrent =>
                completions[r] = IF r \in Passed THEN <<UndecodedMessage(r)>> ELSE <<>>
           /\ Concurrent => CarriesMarker(UndecodedMessage(r))
    /\ Concurrent /\ (\A r \in 1..N : Undecoded(r)) => successes = Cardinality(Passed)
    /\ Ordered =>
         \A kind \in {"missing", "undecodable"} :
           LET msg == IF kind = "missing"
                      THEN BadMsg("record missing Kinesis data.")
                      ELSE BadMsg("failed to decode and parse the data")
           IN Cardinality(EntriesOf(msg)) =
                Cardinality({r \in Passed : Records[r].data = kind})
    /\ \A c \in 1..Len(callbackCalls) :
         indexOf(callbackCalls[c], <<METHOD_PROCESS_EVENT, BAD_MSG>>) = -1
    /\ \A u \in 1..Len(uncaught) :
         indexOf(uncaught[u], <<METHOD_PROCESS_EVENT, BAD_MSG>>) = -1
    /\ (\A r \in 1..N : Undecoded(r)) =>
         /\ \A c \in 1..Len(callbackCalls) : callbackCalls[c] = NoErr
         /\ uncaught = <<>>
    /\ (turn = "none" /\ i <= N) => ~Undecoded(i)

C12_Witness ==
  /\ Quiescent
  /\ N = 2
  /\ Records[1].data = "undecodable"
  /\ Invoked(2) /\ completions[2] = <<NoErr>>
  /\ Concurrent => completions[1] = <<UndecodedMessage(1)>> /\ successes = 2
  /\ Ordered => badMessages = <<UndecodedMessage(1)>>

\* the error of a call that received no record collection
NoRecordsReceived ==
  <<MODULE_NAME, "for", module, METHOD_PROCESS_KINESIS_EVENT, "no records received.">>

\* C13: both drivers: when the batch is absent, has no Records field, or has
\* a Records field that is not an array, the batch callback is invoked
\* exactly once, with the 'no records received' error, and no record is
\* decoded, transformed or dispatched: the loop and the generator never start.
C13_NoRecordsReceived ==
  (called /\ kinesisEvent.shape \in {"null", "noRecords", "notArray"}) =>
    /\ callbackCalls = <<NoRecordsReceived>>
    /\ uncaught = <<>>
    /\ handlerCalls = <<>>
    /\ turn = "none"
    /\ i = 1
    /\ successes = 0
    /\ it = "null"
    /\ badMessages = <<>>
    /\ timers = <<>>

C13_Witness ==
  /\ called
  /\ kinesisEvent.shape = "notArray"
  /\ callbackCalls = <<NoRecordsReceived>>
  /\ schemaMethodPairs # <<>>

\* the transform raised on record k and the turn it raised in is over
TransformRaisedAt(k) ==
  /\ WellFormed
  /\ transfomer
  /\ Records[k].data = "json"
  /\ Records[k].raises
  /\ i = k
  /\ turn = "none"
  /\ Ordered => it = "completed"

\* C14: both drivers: when the transform raises on record k, at any position
\* k of the batch, the batch callback receives the error, the error is not
\* counted as a bad message, and no record after k is dispatched.
C14_TransformErrorReachesCallback ==
  \A k \in 1..N :
    TransformRaisedAt(k) =>
      /\ \E c \in 1..Len(callbackCalls) : callbackCalls[c] = TransformRaised
      /\ completions[k] = <<>>
      /\ \A b \in 1..Len(badMessages) : badMessages[b] # TransformRaised
      /\ \A c \in 1..Len(handlerCalls) : handlerCalls[c].rec < k

\* the records whose completion carried an error without the marker
FatalCompletions ==
  {r \in 1..N : completions[r] # <<>> /\ ~NonFatal(completions[r][1])}

\* C16: concurrent driver: a completion whose error carries the bad-message
\* marker is not raised and adds exactly one to the counter; a completion
\* with any other error is raised as a new Error, adds nothing to the
\* counter, and after it the batch callback is never invoked with no error.
C16_CompletionClassification ==
  (Concurrent /\ WellFormed) =>
    /\ \A r \in 1..N : Len(completions[r]) <= 1
    /\ successes = Cardinality(NonFatalCompletions)
    /\ \A r \in FatalCompletions :
         LET raised == NewError(Message(completions[r][1]))
         IN \/ \E c \in 1..Len(callbackCalls) : callbackCalls[c] = raised
            \/ \E u \in 1..Len(uncaught) : uncaught[u] = raised
    /\ \A r \in NonFatalCompletions :
         LET raised == NewError(Message(completions[r][1]))
         IN /\ \A c \in 1..Len(callbackCalls) : callbackCalls[c] # raised
            /\ \A u \in 1..Len(uncaught) : uncaught[u] # raised
    /\ FatalCompletions # {} => ~Succeeded

C16_Witness ==
  /\ Concurrent
  /\ Quiescent
  /\ N = 2
  /\ completions[1] # <<>> /\ CarriesMarker(completions[1][1])
  /\ FatalCompletions = {2}
  /\ successes = 1

\* it.next() was called on the generator while it was running
ResumedWhileRunning ==
  \/ \E c \in 1..Len(callbackCalls) : callbackCalls[c] = GeneratorRunning
  \/ \E u \in 1..Len(uncaught) : uncaught[u] = GeneratorRunning

\* C17: ordered driver: the continuation that decodes and dispatches the next
\* record runs in a later turn than the one in which the record's completion
\* is signalled, for a rejection, an unsupported schema and a handler's
\* success alike: the generator never runs inside a handler's invocation of
\* its completion callback, and is never resumed while it is still running.
C17_ContinuationInLaterTurn ==
  Ordered =>
    /\ turn # "handler"
    /\ ~ResumedWhileRunning

\* processKinesisEvent has returned
Returned == called /\ turn # "processKinesisEvent"

\* the transform raises on no record of the batch
TransformNeverRaises == \A r \in 1..N : ~(transfomer /\ Records[r].raises)

\* record r was rejected: its completion was signalled without a handler
Rejected(r) == ~Invoked(r) /\ completions[r] # <<>>

\* C18: concurrent driver: for a well-formed batch in which no completion is
\* fatal and the transform does not raise, when processKinesisEvent returns
\* every record has been decoded and either rejected or handed to its
\* handler, without waiting for the completion of the record before it.
C18_FanOutBeforeReturn ==
  (Concurrent /\ WellFormed /\ Returned /\ TransformNeverRaises /\ FatalCompletions = {}) =>
    /\ i = N + 1
    /\ \A r \in 1..N : Rejected(r) \/ Invoked(r)

\* C19: concurrent driver: while no completion of the batch is fatal, the
\* counter plus the number of handlers invoked and not yet completed equals
\* the number of records the loop has iterated, whatever the payloads
\* decode to.
C19_CounterPlusOutstanding ==
  (Concurrent /\ WellFormed /\ FatalCompletions = {}) =>
    successes + Cardinality(Outstanding) = i - 1

\* an event of the batch names the schema of a registration that threw, and
\* its dispatch is over
DispatchedAfterThrow(t) ==
  /\ Quiescent
  /\ N = 1
  /\ Decodes(1)
  /\ Records[1].event.schema = makeSchemaId(EventSchema)
  /\ Records[1].event.envValid
  /\ Records[1].event.data.present
  /\ Records[1].event.data.valid
  /\ Records[1].event.data.schema = t.schemaId
  /\ completions[1] # <<>>

\* C15: registerSchemaMethodPair called with a method that is not a function
\* of exactly two parameters throws and does not store the method: no such
\* method is ever in schemaMethodPairs, and no event, whatever data.schema
\* it names, causes it to be invoked.
C15_BadMethodNeverStored ==
  /\ \A t \in thrown :
       /\ BadMethod(t.method)
       /\ IsRegistered(t.schemaId) => schemaMethodPairs[t.schemaId] # t.method
       /\ \A c \in 1..Len(handlerCalls) : handlerCalls[c].method # t.method
  /\ \A id \in DOMAIN schemaMethodPairs :
       /\ schemaMethodPairs[id].typeof = "function"
       /\ schemaMethodPairs[id].length = 2
  /\ \A c \in 1..Len(handlerCalls) : handlerCalls[c].method \in Methods

C15_Witness ==
  \E t \in thrown :
    /\ t.method.name = "oneParameter"
    /\ DispatchedAfterThrow(t)
    /\ ~IsRegistered(t.schemaId)
    /\ handlerCalls = <<>>

\* C20: ordered driver: when processKinesisEvent is called for a second batch
\* while a handler of the first batch is still outstanding, the completion
\* that handler signals leaves the second batch alone: it does not resume
\* the generator of the second batch, move it to another record, or add an
\* entry to its badMessages.
C20_FirstBatchCompletionLeavesSecondAlone ==
  [][(previous.kind = "handler" /\ previous'.kind = "none") =>
       (it' = it /\ i' = i /\ badMessages' = badMessages)]_vars

\* what the loop of the concurrent driver does with record r: "bad" (a
\* completion carrying the marker), "invoke", "raise" (an exception leaves
\* the loop) or "skip" (no error, no handler)
ConcurrentOutcome(r) ==
  LET record == Records[r]
      decision == KinesisHandler_processEvent(record.event)
  IN IF Undecoded(r) THEN [do |-> "bad", err |-> UndecodedMessage(r)]
     ELSE IF record.data = "falsy" THEN [do |-> "skip", err |-> NoErr]
     ELSE IF transfomer /\ record.raises THEN [do |-> "raise", err |-> TransformRaised]
     ELSE IF decision.do = "complete" /\ decision.err # NoErr
     THEN [do |-> "bad", err |-> decision.err]
     ELSE IF decision.do = "complete" THEN [do |-> "skip", err |-> NoErr]
     ELSE decision

\* the records the concurrent loop reaches: those before the first raise
ConcurrentReach ==
  {r \in 1..N : \A q \in 1..(r - 1) : ConcurrentOutcome(q).do # "raise"}

\* the errors of the records the concurrent loop reaches, in record order
RECURSIVE ConcurrentBadMessages(_)
ConcurrentBadMessages(n) ==
  IF n = 0 THEN <<>>
  ELSE IF n \in ConcurrentReach /\ ConcurrentOutcome(n).do = "bad"
       THEN Append(ConcurrentBadMessages(n - 1), ConcurrentOutcome(n).err)
       ELSE ConcurrentBadMessages(n - 1)

\* every handler invoked so far called back once, with success, in a turn
\* of its own, and nothing is left to run
HandlersSucceededLater ==
  /\ Quiescent
  /\ WellFormed
  /\ HandlersReportSuccess
  /\ ~ResumedWhileRunning

\* C21: for the same registry, transform and batch, with handlers that call
\* back once, later, with success, both drivers end with the same handler
\* invocations (one per record the concurrent loop hands to a handler, with
\* the registered method) and treat the same records as bad messages (the
\* ordered driver's badMessages are the concurrent driver's bad-message
\* completions, in record order).
C21_DriversClassifyAlike ==
  HandlersSucceededLater =>
    /\ \A r \in 1..N :
         /\ Cardinality(CallsFor(r)) =
              IF r \in ConcurrentReach /\ ConcurrentOutcome(r).do = "invoke" THEN 1 ELSE 0
         /\ \A c \in CallsFor(r) :
              handlerCalls[c].method = schemaMethodPairs[Records[r].event.data.schema]
    /\ Concurrent =>
         \A r \in 1..N :
           (completions[r] # <<>> /\ CarriesMarker(completions[r][1]))
             <=> (r \in ConcurrentReach /\ ConcurrentOutcome(r).do = "bad")
    /\ Concurrent =>
         \A r \in 1..N :
           (r \in ConcurrentReach /\ ConcurrentOutcome(r).do = "bad") =>
             completions[r] = <<ConcurrentOutcome(r).err>>
    /\ Ordered => badMessages = ConcurrentBadMessages(N)

C21_Witness ==
  /\ Ordered
  /\ HandlersSucceededLater
  /\ N = 2
  /\ ConcurrentOutcome(1).do = "invoke" /\ Cardinality(CallsFor(1)) = 1
  /\ ConcurrentOutcome(2).do = "bad" /\ badMessages = <<ConcurrentOutcome(2).err>>
  /\ Records[2].data = "json"

\* C22: a registerSchemaMethodPair call that throws because of the method
\* leaves the registry as it was: schemaMethodPairs and the set of schemas
\* known to the validator are the same after the call as before it.
C22_FailedRegistrationChangesNothing ==
  [][thrown' # thrown => (schemaMethodPairs' = schemaMethodPairs /\ ajv' = ajv)]_vars

\* C23: single-constructor module: for a well-formed batch whose records all
\* decode, validate and route to registered handlers, in either mode, once
\* processKinesisEvent is through, each record's handler has been invoked
\* exactly once and the batch callback has been invoked with no error.
C23_EveryRecordHandledAndSuccessReported ==
  (Quiescent /\ WellFormed /\ N >= 1
     /\ \A r \in 1..N :
          Routable(r) /\ schemaMethodPairs[Records[r].event.data.schema] \in Methods) =>
    /\ \A r \in 1..N : Cardinality(CallsFor(r)) = 1
    /\ callbackCalls = <<NoErr>>

====
